---- MODULE Spec2Model ----
(***************************************************************************)
(* The expression compiler of src/server.js: the POST /compile handler and *)
(* the pipeline it runs (tokenize, Parser, printTree, semanticAnalysis,    *)
(* generateTAC, generateFinalCode).                                        *)
(*                                                                         *)
(* A JavaScript string is a sequence of one-character strings, so that     *)
(* scanning, joining, splitting and trimming are computed character by     *)
(* character as the code does.  Cursors (i, pos) are 0-based as in the     *)
(* code; a sequence is read at cursor + 1.                                 *)
(***************************************************************************)
EXTENDS Integers, Sequences, FiniteSets, TLC

(***************************************************************************)
(* Bounds of the model.                                                    *)
(***************************************************************************)
\* longest request string drawn from Alphabet
MaxLen == 3
\* most operands of an operator chain  operand (op operand)*
MaxOperands == 3
\* most requests one run of the server receives
MaxCalls == 2
\* longest request string stepped through the lexer and the parser
MaxStepLen == 3

(***************************************************************************)
(* Character classes of the lexer's regular expressions.                   *)
(***************************************************************************)
\* /\d/
Digits == {"0", "1", "2", "3", "4", "5", "6", "7", "8", "9"}

\* /[a-zA-Z]/
Letters ==
    {"a", "b", "c", "d", "e", "f", "g", "h", "i", "j", "k", "l", "m",
     "n", "o", "p", "q", "r", "s", "t", "u", "v", "w", "x", "y", "z",
     "A", "B", "C", "D", "E", "F", "G", "H", "I", "J", "K", "L", "M",
     "N", "O", "P", "Q", "R", "S", "T", "U", "V", "W", "X", "Y", "Z"}

\* /\s/ (the members a request of this model can hold)
Whitespace == {" ", "\t", "\n"}

\* /[\d.]/
NumberPart == Digits \cup {"."}

\* /[a-zA-Z0-9]/
IdentPart == Letters \cup Digits

\* "+-*/()"
OperatorChars == {"+", "-", "*", "/", "(", ")"}

(***************************************************************************)
(* Error messages.  A message is its template text and the values the      *)
(* template interpolates.                                                  *)
(***************************************************************************)
Message(text, type, value, position) ==
    [text |-> text, type |-> type, value |-> value, position |-> position]

NoError == Message("", "", <<>>, 0)

MissingExpression == Message("Missing or invalid expression", "", <<>>, 0)

MultipleDots == Message("Invalid number format: multiple dots", "", <<>>, 0)

\* the cursor itself as the position
ZeroBasedInvalidCharacter(ch, i) == Message("Invalid character", "", <<ch>>, i)

\* `Invalid character: '${ch}' at position ${i+1}`
InvalidCharacter(ch, i) == Message("Invalid character", "", <<ch>>, i + 1)

\* `Expected ${type} '${value}' but got ${tok ? tok.type : 'EOF'}`
Expected(type, value, got) == Message("Expected " \o type \o " but got", got, value, 0)

UnexpectedEnd == Message("Unexpected end of input", "", <<>>, 0)

\* `Unexpected token: ${tok.type} '${tok.value}'`
UnexpectedToken(tok) == Message("Unexpected token", tok.type, tok.value, 0)

ExtraTokens == Message("Extra tokens after expression", "", <<>>, 0)

UnknownNode == Message("Unknown node type in TAC generation", "", <<>>, 0)

(***************************************************************************)
(* tokenize                                                                *)
(***************************************************************************)
\* input[i] || ''
At(input, i) == IF i >= 0 /\ i < Len(input) THEN input[i + 1] ELSE ""

\* while (i < input.length && <class>.test(input[i])) i++  : the cursor after
RECURSIVE ScanWhile(_, _, _)
ScanWhile(input, i, class) ==
    IF i < Len(input) /\ At(input, i) \in class
    THEN ScanWhile(input, i + 1, class)
    ELSE i

skipWhitespace(input, i) == ScanWhile(input, i, Whitespace)

\* the characters appended by  num += input[i++]  for cursors i .. j-1
DropLastText(input, i, j) == SubSeq(input, i + 1, j - 1)

TokenText(input, i, j) == SubSeq(input, i + 1, j)

\* (num.match(/\./g) || []).length
CountDots(num) == Cardinality({k \in 1..Len(num) : num[k] = "."})

Token(type, value) == [type |-> type, value |-> value]

\* the loop of tokenize from cursor i0 with the tokens pushed so far
RECURSIVE tokenizeFrom(_, _, _)
tokenizeFrom(input, i0, tokens) ==
    IF ~(i0 < Len(input))
    THEN [ok |-> TRUE, tokens |-> tokens, error |-> NoError]
    ELSE
      LET i == skipWhitespace(input, i0)
          ch == At(input, i)
      IN
      IF i >= Len(input)
      THEN [ok |-> TRUE, tokens |-> tokens, error |-> NoError]
      ELSE IF ch \in Digits \/ (ch = "." /\ At(input, i + 1) \in Digits)
      THEN
        LET j == ScanWhile(input, i, NumberPart)
            num == TokenText(input, i, j)
        IN
        IF CountDots(num) > 1
        THEN [ok |-> FALSE, tokens |-> <<>>, error |-> MultipleDots]
        ELSE tokenizeFrom(input, j, Append(tokens, Token("NUMBER", num)))
      ELSE IF ch \in Letters
      THEN
        LET j == ScanWhile(input, i, IdentPart)
        IN tokenizeFrom(input, j, Append(tokens, Token("IDENT", TokenText(input, i, j))))
      ELSE IF ch \in OperatorChars
      THEN tokenizeFrom(input, i + 1, Append(tokens, Token("OPERATOR", <<ch>>)))
      ELSE [ok |-> FALSE, tokens |-> <<>>, error |-> InvalidCharacter(ch, i)]

tokenize(input) == tokenizeFrom(input, 0, <<>>)

(***************************************************************************)
(* Parser                                                                  *)
(***************************************************************************)
\* null
Null == [type |-> "null"]

NumberNode(value) == [type |-> "Number", value |-> value]

VariableNode(name) == [type |-> "Variable", name |-> name]

\* the operands the wrong way round
SwappedBinaryOp(op, left, right) ==
    [type |-> "BinaryOp", operator |-> op, left |-> right, right |-> left]

\* { type: "BinaryOp", operator: op, left: node, right }
BinaryOp(op, left, right) ==
    [type |-> "BinaryOp", operator |-> op, left |-> left, right |-> right]

UnaryOp(op, operand) == [type |-> "UnaryOp", operator |-> op, operand |-> operand]

\* this.tokens[this.pos] || null
peek(tokens, pos) == IF pos >= 0 /\ pos < Len(tokens) THEN tokens[pos + 1] ELSE Null

Parsed(node, pos) == [ok |-> TRUE, node |-> node, pos |-> pos, error |-> NoError]

Thrown(pos, error) == [ok |-> FALSE, node |-> Null, pos |-> pos, error |-> error]

\* eat(type, value): the consumed token in node
eat(tokens, pos, type, value) ==
    LET tok == peek(tokens, pos)
    IN
    IF tok = Null \/ tok.type # type \/ (value # <<>> /\ tok.value # value)
    THEN Thrown(pos, Expected(type, value, IF tok = Null THEN "EOF" ELSE tok.type))
    ELSE Parsed(tok, pos + 1)

\* the operators of the two loops exchanged
ExpressionOperatorsSwapped == {<<"*">>, <<"/">>}

\* ["+", "-"]
ExpressionOperators == {<<"+">>, <<"-">>}

\* ["*", "/"]
TermOperators == {<<"*">>, <<"/">>}

RECURSIVE parseExpression(_, _)
RECURSIVE expressionLoop(_, _, _)
RECURSIVE parseTerm(_, _)
RECURSIVE termLoop(_, _, _)
RECURSIVE parseFactor(_, _)

parseExpression(tokens, pos) ==
    LET first == parseTerm(tokens, pos)
    IN IF first.ok THEN expressionLoop(tokens, first.node, first.pos) ELSE first

\* the while loop of parseExpression with the node built so far
expressionLoop(tokens, node, pos) ==
    LET tok == peek(tokens, pos)
    IN
    IF tok # Null /\ tok.value \in ExpressionOperators
    THEN
      LET right == parseTerm(tokens, pos + 1)
      IN
      IF right.ok
      THEN expressionLoop(tokens, BinaryOp(tok.value, node, right.node), right.pos)
      ELSE right
    ELSE Parsed(node, pos)

parseTerm(tokens, pos) ==
    LET first == parseFactor(tokens, pos)
    IN IF first.ok THEN termLoop(tokens, first.node, first.pos) ELSE first

\* the while loop of parseTerm with the node built so far
termLoop(tokens, node, pos) ==
    LET tok == peek(tokens, pos)
    IN
    IF tok # Null /\ tok.value \in TermOperators
    THEN
      LET right == parseFactor(tokens, pos + 1)
      IN
      IF right.ok
      THEN termLoop(tokens, BinaryOp(tok.value, node, right.node), right.pos)
      ELSE right
    ELSE Parsed(node, pos)

parseFactor(tokens, pos) ==
    LET tok == peek(tokens, pos)
    IN
    IF tok = Null THEN Thrown(pos, UnexpectedEnd)
    ELSE IF tok.type = "NUMBER" THEN Parsed(NumberNode(tok.value), pos + 1)
    ELSE IF tok.type = "IDENT" THEN Parsed(VariableNode(tok.value), pos + 1)
    ELSE IF tok.value = <<"(">>
    THEN
      LET inner == parseExpression(tokens, pos + 1)
      IN
      IF inner.ok
      THEN
        LET close == eat(tokens, inner.pos, "OPERATOR", <<")">>)
        IN IF close.ok THEN Parsed(inner.node, close.pos) ELSE close
      ELSE inner
    ELSE IF tok.value = <<"-">>
    THEN
      LET expr == parseFactor(tokens, pos + 1)
      IN IF expr.ok THEN Parsed(UnaryOp(<<"-">>, expr.node), expr.pos) ELSE expr
    ELSE Thrown(pos, UnexpectedToken(tok))

(***************************************************************************)
(* Strings                                                                 *)
(***************************************************************************)
\* digit d as a character
DigitChar(d) == <<"0", "1", "2", "3", "4", "5", "6", "7", "8", "9">>[d + 1]

\* `${n}` for a number n >= 0
RECURSIVE NumberToString(_)
NumberToString(n) ==
    IF n < 10 THEN <<DigitChar(n)>>
    ELSE NumberToString(n \div 10) \o <<DigitChar(n % 10)>>

\* parts.join(sep)
RECURSIVE Join(_, _)
Join(parts, sep) ==
    IF parts = <<>> THEN <<>>
    ELSE IF Len(parts) = 1 THEN parts[1]
    ELSE parts[1] \o sep \o Join(Tail(parts), sep)

\* s.split(sep) from character k on: cur is the piece being read
RECURSIVE SplitFrom(_, _, _, _, _)
SplitFrom(s, sep, k, cur, parts) ==
    IF k > Len(s) THEN Append(parts, cur)
    ELSE IF k + Len(sep) - 1 <= Len(s) /\ SubSeq(s, k, k + Len(sep) - 1) = sep
    THEN SplitFrom(s, sep, k + Len(sep), <<>>, Append(parts, cur))
    ELSE SplitFrom(s, sep, k + 1, Append(cur, s[k]), parts)

Split(s, sep) == SplitFrom(s, sep, 1, <<>>, <<>>)

\* s.trim()
RECURSIVE Trim(_)
Trim(s) ==
    IF s = <<>> THEN s
    ELSE IF s[1] \in Whitespace THEN Trim(Tail(s))
    ELSE IF s[Len(s)] \in Whitespace THEN Trim(SubSeq(s, 1, Len(s) - 1))
    ELSE s

\* s.padEnd(n)
RECURSIVE padEnd(_, _)
padEnd(s, n) == IF Len(s) >= n THEN s ELSE padEnd(Append(s, " "), n)

\* s.includes(c) for a character c
Includes(s, c) == \E k \in 1..Len(s) : s[k] = c

\* a token type as characters
TypeName(type) ==
    CASE type = "NUMBER" -> <<"N", "U", "M", "B", "E", "R">>
      [] type = "IDENT" -> <<"I", "D", "E", "N", "T">>
      [] type = "OPERATOR" -> <<"O", "P", "E", "R", "A", "T", "O", "R">>

(***************************************************************************)
(* printTree.  The box-drawing glyphs are written in ASCII: |-- for the    *)
(* left connector, L-- for the last one, | for the bar.                    *)
(***************************************************************************)
LeftConnector == <<"|", "-", "-", " ">>

LastConnector == <<"L", "-", "-", " ">>

LeftChildPrefix == <<"|", " ", " ", " ">>

LastChildPrefix == <<" ", " ", " ", " ">>

RECURSIVE printTree(_, _, _, _)
printTree(node, prefix, isLeft, isRoot) ==
    IF node = Null THEN <<>>
    ELSE
      LET connector == IF isRoot THEN <<>> ELSE IF isLeft THEN LeftConnector ELSE LastConnector
          childPrefix == IF isRoot THEN <<>> ELSE IF isLeft THEN LeftChildPrefix ELSE LastChildPrefix
      IN
      IF node.type = "BinaryOp"
      THEN prefix \o connector \o <<"[">> \o node.operator \o <<"]", "\n">>
           \o printTree(node.left, prefix \o childPrefix, TRUE, FALSE)
           \o printTree(node.right, prefix \o childPrefix, FALSE, FALSE)
      ELSE IF node.type = "UnaryOp"
      THEN prefix \o connector \o <<"[", "u", "n", "a", "r", "y", " ">> \o node.operator
           \o <<"]", "\n">>
           \o printTree(node.operand, prefix \o childPrefix, FALSE, FALSE)
      ELSE IF node.type = "Number"
      THEN prefix \o connector \o node.value \o <<"\n">>
      ELSE IF node.type = "Variable"
      THEN prefix \o connector \o node.name \o <<"\n">>
      ELSE <<>>

EmptyTree == <<"(", "e", "m", "p", "t", "y", " ", "t", "r", "e", "e", ")">>

(***************************************************************************)
(* semanticAnalysis                                                        *)
(***************************************************************************)
\* a list that keeps every occurrence
ListPush(set, name) == Append(set, name)

\* Set.add: a Set keeps insertion order and no duplicate
SetAdd(set, name) ==
    IF \E k \in 1..Len(set) : set[k] = name THEN set ELSE Append(set, name)

\* const variables = new Set()
NewVariables(left) == <<>>

\* walk(node) on the accumulators acc
RECURSIVE walk(_, _)
walk(node, acc) ==
    IF node = Null THEN acc
    ELSE
      LET counted == [acc EXCEPT !.nodeCount = @ + 1]
      IN
      IF node.type = "Variable"
      THEN [counted EXCEPT !.variables = SetAdd(@, node.name)]
      ELSE IF node.type = "Number"
      THEN [counted EXCEPT !.constants = Append(@, node.value)]
      ELSE IF node.type = "BinaryOp"
      THEN walk(node.right,
                walk(node.left, [counted EXCEPT !.operators = Append(@, node.operator)]))
      ELSE IF node.type = "UnaryOp"
      THEN walk(node.operand,
                [counted EXCEPT !.operators = Append(@, <<"u", "n", "a", "r", "y", " ">> \o node.operator)])
      ELSE counted

CommaSpace == <<",", " ">>

NoneText == <<"(", "n", "o", "n", "e", ")">>

\* the report: each line of the template with the text it interpolates
\* (the rules of the heading and the marks of the last lines are written in ASCII)
Report(acc) ==
    << [label |-> "-- Semantic Analysis Report --", text |-> <<>>],
       [label |-> "", text |-> <<>>],
       [label |-> "AST Nodes     : ", text |-> NumberToString(acc.nodeCount)],
       [label |-> "Variables     : ",
        text |-> IF Len(acc.variables) > 0 THEN Join(acc.variables, CommaSpace) ELSE NoneText],
       [label |-> "Constants     : ",
        text |-> IF Len(acc.constants) > 0 THEN Join(acc.constants, CommaSpace) ELSE NoneText],
       [label |-> "Operators     : ", text |-> Join(acc.operators, CommaSpace)],
       [label |-> "Result Type   : " \o
                    (IF Len(acc.variables) > 0
                     THEN "symbolic (contains variables)"
                     ELSE "numeric (can evaluate)"),
        text |-> <<>>],
       [label |-> "", text |-> <<>>] >>
    \o (IF Len(acc.variables) > 0
        THEN << [label |-> "! Undeclared symbols: ", text |-> Join(acc.variables, CommaSpace)],
                [label |-> "  (values needed at runtime)", text |-> <<>>] >>
        ELSE << [label |-> "ok Expression is fully evaluable at compile time",
                 text |-> <<>>] >>)

\* semanticAnalysis(ast); left: the variables cell as an earlier call left it
semanticAnalysis(ast, left) ==
    LET acc == walk(ast, [variables |-> NewVariables(left), constants |-> <<>>,
                          operators |-> <<>>, nodeCount |-> 0])
    IN [report |-> Report(acc), variables |-> acc.variables]

(***************************************************************************)
(* generateTAC                                                             *)
(***************************************************************************)
\* `t${n}`
TempName(n) == <<"t">> \o NumberToString(n)

\* the right subtree generated before the left one
RECURSIVE genRightFirst(_, _, _)
genRightFirst(node, tac, tempCounter) ==
    IF node.type = "Number"
    THEN [ok |-> TRUE, ref |-> node.value, tac |-> tac, tempCounter |-> tempCounter]
    ELSE IF node.type = "Variable"
    THEN [ok |-> TRUE, ref |-> node.name, tac |-> tac, tempCounter |-> tempCounter]
    ELSE IF node.type = "UnaryOp"
    THEN
      LET operand == genRightFirst(node.operand, tac, tempCounter)
      IN [ok |-> TRUE, ref |-> TempName(operand.tempCounter),
          tac |-> Append(operand.tac,
                         TempName(operand.tempCounter) \o <<" ", "=", " ", "-">> \o operand.ref),
          tempCounter |-> operand.tempCounter + 1]
    ELSE
      LET right == genRightFirst(node.right, tac, tempCounter)
          left == genRightFirst(node.left, right.tac, right.tempCounter)
      IN [ok |-> TRUE, ref |-> TempName(left.tempCounter),
          tac |-> Append(left.tac,
                         TempName(left.tempCounter) \o <<" ", "=", " ">> \o left.ref
                         \o <<" ">> \o node.operator \o <<" ">> \o right.ref),
          tempCounter |-> left.tempCounter + 1]

\* gen(node) on the cells tac and tempCounter
RECURSIVE gen(_, _, _)
gen(node, tac, tempCounter) ==
    IF node.type = "Number"
    THEN [ok |-> TRUE, ref |-> node.value, tac |-> tac, tempCounter |-> tempCounter]
    ELSE IF node.type = "Variable"
    THEN [ok |-> TRUE, ref |-> node.name, tac |-> tac, tempCounter |-> tempCounter]
    ELSE IF node.type = "UnaryOp" /\ node.operator = <<"-">>
    THEN
      LET operand == gen(node.operand, tac, tempCounter)
      IN
      IF ~operand.ok THEN operand
      ELSE [ok |-> TRUE, ref |-> TempName(operand.tempCounter),
            tac |-> Append(operand.tac,
                           TempName(operand.tempCounter) \o <<" ", "=", " ", "-">> \o operand.ref),
            tempCounter |-> operand.tempCounter + 1]
    ELSE IF node.type = "BinaryOp"
    THEN
      LET left == gen(node.left, tac, tempCounter)
          right == gen(node.right, left.tac, left.tempCounter)
      IN
      IF ~left.ok THEN left
      ELSE IF ~right.ok THEN right
      ELSE [ok |-> TRUE, ref |-> TempName(right.tempCounter),
            tac |-> Append(right.tac,
                           TempName(right.tempCounter) \o <<" ", "=", " ">> \o left.ref
                           \o <<" ">> \o node.operator \o <<" ">> \o right.ref),
            tempCounter |-> right.tempCounter + 1]
    ELSE [ok |-> FALSE, ref |-> <<>>, tac |-> tac, tempCounter |-> tempCounter]

\* the counter as an earlier call left it
StaleTempCounter(left) == left

\* let tempCounter = 0
NewTempCounter(left) == 0

ResultTarget == <<"r", "e", "s", "u", "l", "t", " ", "=", " ">>

\* generateTAC(node); left: the counter cell as an earlier call left it
generateTAC(node, left) ==
    LET result == gen(node, <<>>, NewTempCounter(left))
    IN
    IF ~result.ok
    THEN [ok |-> FALSE, tac |-> <<>>, tempCounter |-> result.tempCounter, error |-> UnknownNode]
    ELSE [ok |-> TRUE, tac |-> Append(result.tac, ResultTarget \o result.ref),
          tempCounter |-> result.tempCounter, error |-> NoError]

(***************************************************************************)
(* generateFinalCode                                                       *)
(***************************************************************************)
Mov == <<"M", "O", "V", " ">>

Assign == <<" ", "=", " ">>

\* reading .trim of undefined
TrimOfUndefined == Message("Cannot read properties of undefined (reading 'trim')", "", <<>>, 0)

\* the lines pushed for tacLines[k..]
RECURSIVE finalLines(_, _, _)
finalLines(tacLines, k, lines) ==
    IF k > Len(tacLines) THEN [ok |-> TRUE, lines |-> lines, error |-> NoError]
    ELSE IF Includes(tacLines[k], "=")
    THEN
      LET parts == Split(tacLines[k], Assign)
      IN
      IF Len(parts) < 2
      THEN [ok |-> FALSE, lines |-> lines, error |-> TrimOfUndefined]
      ELSE finalLines(tacLines, k + 1,
                      Append(lines, Mov \o Trim(parts[1]) \o CommaSpace \o Trim(parts[2])))
    ELSE finalLines(tacLines, k + 1, lines)

generateFinalCode(tacLines) ==
    LET r == finalLines(tacLines, 1, <<>>)
    IN [ok |-> r.ok, code |-> Join(r.lines, <<"\n">>), error |-> r.error]

\* "(single value - no operations)"
NoOperations ==
    <<"(", "s", "i", "n", "g", "l", "e", " ", "v", "a", "l", "u", "e", " ", "-", " ",
      "n", "o", " ", "o", "p", "e", "r", "a", "t", "i", "o", "n", "s", ")">>

(***************************************************************************)
(* Requests.  A request body holds the value of its expression member: a   *)
(* string, or no string at all.                                            *)
(***************************************************************************)
StringBody(value) == [type |-> "string", value |-> value]

\* a body whose expression is missing
UndefinedBody == [type |-> "undefined", value |-> <<>>]

Alphabet == {"2", "a", "b", "+", "-", "*", "/", "(", ")", " ", ".", "$"}

\* every string of at most n characters of Alphabet
Strings(n) == UNION {[1..k -> Alphabet] : k \in 0..n}

ChainOperands == {"2", "a", "b"}

ChainOperators == {"+", "-", "*", "/"}

\* operand (operator operand)* with n operands
RECURSIVE Chains(_)
Chains(n) ==
    IF n <= 1 THEN {<<o>> : o \in ChainOperands}
    ELSE {c \o <<op, o>> : c \in Chains(n - 1), op \in ChainOperators, o \in ChainOperands}

\* the expressions the specification and the claims name
Examples ==
    { <<"5">>, <<"3", ".", "1", "4">>, <<"3", ".", "1", ".", "4">>,
      <<"2", " ", "$", " ", "3">>,
      <<"2", "+", "3", "*", "4">>, <<"8", "-", "3", "-", "2">>,
      <<"-", "a", "*", "b">>, <<"-", "-", "x">>,
      <<"(", "2", "+", "3">>, <<"2", " ", "3">>, <<"2", ")">>,
      <<"x", "+", "2">>, <<"2", "+", "3">>,
      <<"a", "+", "1">>, <<"b", "+", "2">>,
      <<"b", "*", "(", "a", "-", "b", ")", "/", "a">>,
      <<"-", "(", "a", "+", "2", ")", "*", "-", "b">>,
      <<"t", "0", "*", "2">>, <<" ", "a", "b", " ", "+", "\t", "2", ".", "5", " ">> }

\* the first request of a run
Requests ==
    {StringBody(v) : v \in Strings(MaxLen) \cup UNION {Chains(n) : n \in 1..MaxOperands}
                                           \cup Examples}
    \cup {UndefinedBody}

\* the requests that follow it
FollowUps == {StringBody(v) : v \in Examples} \cup {UndefinedBody}

(***************************************************************************)
(* The server: one POST /compile handler at a time (the handler never      *)
(* awaits, so two requests never interleave inside it).                    *)
(*   pc           where the handler is                                     *)
(*   calls        requests received so far                                 *)
(*   request      req.body.expression of the request in hand               *)
(*   tokens, pos, ast, syntaxTree, tacLines, finalCode                     *)
(*                the handler's locals and parser.pos                      *)
(*   error        the Error thrown, on its way to the catch block          *)
(*   response     the response sent for the request in hand                *)
(*   tempCounter  the counter cell of generateTAC                          *)
(*   variables    the Set cell of semanticAnalysis                         *)
(*   ran          the stages entered for the request in hand               *)
(*   outcomes     the status of every response sent so far                 *)
(***************************************************************************)
VARIABLES pc, calls, request, tokens, pos, ast, syntaxTree, tacLines, finalCode,
          error, response, tempCounter, variables, ran, outcomes

(***************************************************************************)
(* The lexer and the parser step by step:                                  *)
(*   i            the cursor of tokenize                                   *)
(*   stack        the calls of the parser that have not returned, the      *)
(*                innermost last; a frame holds the method, where it is,   *)
(*                and its locals node and op                               *)
(*   ret          the value the last parser method returned                *)
(***************************************************************************)
VARIABLES i, stack, ret

(***************************************************************************)
(* The page of the client (script.js):                                     *)
(*   expressionInput  the value of the input field                         *)
(*   errorMessage     the error banner: its hidden class and textContent   *)
(*   outputs          the textContent of the five output panels            *)
(*   pending          the invocations of compileExpression suspended at an *)
(*                    await, each with its expression and where it waits   *)
(*   submitted        the invocations of compileExpression so far          *)
(***************************************************************************)
VARIABLES expressionInput, errorMessage, outputs, pending, submitted

serverVars == <<pc, calls, request, tokens, pos, ast, syntaxTree, tacLines, finalCode,
                error, response, tempCounter, variables, ran, outcomes>>

stepVars == <<i, stack, ret>>

clientVars == <<expressionInput, errorMessage, outputs, pending, submitted>>

vars == <<serverVars, stepVars, clientVars>>

NoResponse == [status |-> 0, body |-> <<>>]

\* ["lexicalOutput", "syntaxOutput", "semanticOutput", "intermediateOutput", "finalOutput"]
OutputIds ==
    {"lexicalOutput", "syntaxOutput", "semanticOutput", "intermediateOutput", "finalOutput"}

\* document.getElementById(id).textContent = ""  for each of them
NoOutputs == [id \in OutputIds |-> <<>>]

\* errorDiv.classList.add("hidden"); errorDiv.textContent = ""
HiddenBanner == [hidden |-> TRUE, textContent |-> <<>>]

Init ==
    /\ pc = "idle"
    /\ calls = 0
    /\ request = UndefinedBody
    /\ tokens = <<>>
    /\ pos = 0
    /\ ast = Null
    /\ syntaxTree = <<>>
    /\ tacLines = <<>>
    /\ finalCode = <<>>
    /\ error = NoError
    /\ response = NoResponse
    /\ tempCounter = 0
    /\ variables = <<>>
    /\ ran = <<>>
    /\ outcomes = <<>>
    /\ i = 0
    /\ stack = <<>>
    /\ ret = Null
    /\ expressionInput = <<>>
    /\ errorMessage = HiddenBanner
    /\ outputs = NoOutputs
    /\ pending = {}
    /\ submitted = <<>>

\* !expression || typeof expression !== "string"
Invalid(body) == body.type # "string" \/ body.value = <<>>

\* a failed stage passes control on as if it had succeeded
FallThrough(ok, next) == next

\* a throw inside try leaves for the catch block
Continue(ok, next) == IF ok THEN next ELSE "catch"

\* A request arrives and the handler validates it (a fresh set of locals).
Receive(body) ==
    /\ pc = "idle"
    /\ calls < MaxCalls
    /\ calls' = calls + 1
    /\ request' = body
    /\ tokens' = <<>>
    /\ pos' = 0
    /\ ast' = Null
    /\ syntaxTree' = <<>>
    /\ tacLines' = <<>>
    /\ finalCode' = <<>>
    /\ error' = NoError
    /\ ran' = <<>>
    /\ IF Invalid(body)
       THEN /\ response' = [status |-> 400, body |-> [error |-> MissingExpression]]
            /\ outcomes' = Append(outcomes, 400)
            /\ pc' = "idle"
       ELSE /\ response' = NoResponse
            /\ outcomes' = outcomes
            /\ pc' = "tokenize"
    /\ UNCHANGED <<tempCounter, variables>>
    /\ i' = 0
    /\ stack' = <<>>
    /\ ret' = Null
    /\ UNCHANGED clientVars

\* const tokens = tokenize(expression)
Tokenize ==
    /\ pc = "tokenize"
    /\ LET r == tokenize(request.value)
       IN /\ tokens' = r.tokens
          /\ error' = r.error
          /\ pc' = Continue(r.ok, "parse")
    /\ ran' = Append(ran, "tokenize")
    /\ UNCHANGED <<outcomes, calls, request, pos, ast, syntaxTree, tacLines, finalCode, response,
                   tempCounter, variables>>
    /\ UNCHANGED <<stepVars, clientVars>>

\* const parser = new Parser(tokens); const ast = parser.parseExpression()
Parse ==
    /\ pc = "parse"
    /\ LET r == parseExpression(tokens, 0)
       IN /\ ast' = r.node
          /\ pos' = r.pos
          /\ error' = r.error
          /\ pc' = Continue(r.ok, "check")
    /\ ran' = Append(ran, "parse")
    /\ UNCHANGED <<outcomes, calls, request, tokens, syntaxTree, tacLines, finalCode, response,
                   tempCounter, variables>>
    /\ UNCHANGED <<stepVars, clientVars>>

\* no check at all
NeverLeftOver(p, toks) == FALSE

\* parser.pos !== tokens.length
LeftOver(p, toks) == p # Len(toks)

\* if (parser.pos !== tokens.length) throw new Error("Extra tokens after expression")
CheckExtra ==
    /\ pc = "check"
    /\ IF LeftOver(pos, tokens)
       THEN error' = ExtraTokens /\ pc' = "catch"
       ELSE error' = error /\ pc' = "printTree"
    /\ ran' = Append(ran, "check")
    /\ UNCHANGED <<outcomes, calls, request, tokens, pos, ast, syntaxTree, tacLines, finalCode,
                   response, tempCounter, variables>>
    /\ UNCHANGED <<stepVars, clientVars>>

\* const syntaxTree = printTree(ast).trim() || "(empty tree)"
PrintTree ==
    /\ pc = "printTree"
    /\ LET text == Trim(printTree(ast, <<>>, TRUE, TRUE))
       IN syntaxTree' = IF text = <<>> THEN EmptyTree ELSE text
    /\ pc' = "generateTAC"
    /\ ran' = Append(ran, "printTree")
    /\ UNCHANGED <<outcomes, calls, request, tokens, pos, ast, tacLines, finalCode, error, response,
                   tempCounter, variables>>
    /\ UNCHANGED <<stepVars, clientVars>>

\* const tacLines = generateTAC(ast)
GenerateTAC ==
    /\ pc = "generateTAC"
    /\ LET r == generateTAC(ast, tempCounter)
       IN /\ tacLines' = r.tac
          /\ tempCounter' = r.tempCounter
          /\ error' = r.error
          /\ pc' = Continue(r.ok, "generateFinalCode")
    /\ ran' = Append(ran, "generateTAC")
    /\ UNCHANGED <<outcomes, calls, request, tokens, pos, ast, syntaxTree, finalCode, response,
                   variables>>
    /\ UNCHANGED <<stepVars, clientVars>>

\* const finalCode = generateFinalCode(tacLines)
GenerateFinalCode ==
    /\ pc = "generateFinalCode"
    /\ LET r == generateFinalCode(tacLines)
       IN /\ finalCode' = r.code
          /\ error' = r.error
          /\ pc' = Continue(r.ok, "send")
    /\ ran' = Append(ran, "generateFinalCode")
    /\ UNCHANGED <<outcomes, calls, request, tokens, pos, ast, syntaxTree, tacLines, response,
                   tempCounter, variables>>
    /\ UNCHANGED <<stepVars, clientVars>>

\* tokens.map(t => `${t.type.padEnd(8)} ${t.value}`).join("\n")
TokenLines(toks) ==
    Join([k \in 1..Len(toks) |-> padEnd(TypeName(toks[k].type), 8) \o <<" ">> \o toks[k].value],
         <<"\n">>)

\* res.json({ tokens, syntaxTree, semantic: semanticAnalysis(ast), intermediate, final })
SendResult ==
    /\ pc = "send"
    /\ LET semantic == semanticAnalysis(ast, variables)
       IN /\ variables' = semantic.variables
          /\ response' =
               [status |-> 200,
                body |-> [tokens |-> TokenLines(tokens),
                          syntaxTree |-> syntaxTree,
                          semantic |-> semantic.report,
                          intermediate |-> Join(tacLines, <<"\n">>),
                          final |-> IF finalCode = <<>> THEN NoOperations ELSE finalCode]]
    /\ pc' = "idle"
    /\ ran' = Append(ran, "semanticAnalysis")
    /\ outcomes' = Append(outcomes, 200)
    /\ UNCHANGED <<calls, request, tokens, pos, ast, syntaxTree, tacLines, finalCode, error,
                   tempCounter>>
    /\ UNCHANGED <<stepVars, clientVars>>

\* catch (err) { res.status(400).json({ error: err.message }) }
Catch ==
    /\ pc = "catch"
    /\ response' = [status |-> 400, body |-> [error |-> error]]
    /\ outcomes' = Append(outcomes, 400)
    /\ pc' = "idle"
    /\ UNCHANGED <<calls, request, tokens, pos, ast, syntaxTree, tacLines, finalCode, error,
                   tempCounter, variables, ran>>
    /\ UNCHANGED <<stepVars, clientVars>>

Next ==
    \/ \E body \in (IF calls = 0 THEN Requests ELSE FollowUps) : Receive(body)
    \/ Tokenize
    \/ Parse
    \/ CheckExtra
    \/ PrintTree
    \/ GenerateTAC
    \/ GenerateFinalCode
    \/ SendResult
    \/ Catch

Spec == Init /\ [][Next]_vars

(***************************************************************************)
(* The same handler with tokenize and the parser run step by step: one     *)
(* step per iteration of the lexer loop, and one per stretch of a parser   *)
(* method between two calls or returns.                                    *)
(***************************************************************************)
\* one iteration of  while (i < input.length) { ... }  from cursor i0
lexIteration(input, i0, toks) ==
    LET j == skipWhitespace(input, i0)
        ch == At(input, j)
    IN
    \* if (i >= input.length) break
    IF j >= Len(input)
    THEN [ok |-> TRUE, i |-> j, tokens |-> toks, error |-> NoError]
    ELSE IF ch \in Digits \/ (ch = "." /\ At(input, j + 1) \in Digits)
    THEN
      LET k == ScanWhile(input, j, NumberPart)
          num == TokenText(input, j, k)
      IN
      IF CountDots(num) > 1
      THEN [ok |-> FALSE, i |-> k, tokens |-> toks, error |-> MultipleDots]
      ELSE [ok |-> TRUE, i |-> k, tokens |-> Append(toks, Token("NUMBER", num)),
            error |-> NoError]
    ELSE IF ch \in Letters
    THEN
      LET k == ScanWhile(input, j, IdentPart)
      IN [ok |-> TRUE, i |-> k,
          tokens |-> Append(toks, Token("IDENT", TokenText(input, j, k))),
          error |-> NoError]
    ELSE IF ch \in OperatorChars
    THEN [ok |-> TRUE, i |-> j + 1, tokens |-> Append(toks, Token("OPERATOR", <<ch>>)),
          error |-> NoError]
    ELSE [ok |-> FALSE, i |-> j, tokens |-> toks, error |-> InvalidCharacter(ch, j)]

\* The lexer loop runs once: it pushes a token, skips trailing blanks, or throws.
LexIteration ==
    /\ pc = "tokenize"
    /\ i < Len(request.value)
    /\ LET r == lexIteration(request.value, i, tokens)
       IN /\ i' = r.i
          /\ tokens' = r.tokens
          /\ error' = r.error
          /\ pc' = Continue(r.ok, "tokenize")
    /\ ran' = IF ran = <<>> THEN <<"tokenize">> ELSE ran
    /\ UNCHANGED <<outcomes, calls, request, pos, ast, syntaxTree, tacLines, finalCode, response,
                   tempCounter, variables, stack, ret, clientVars>>

\* a call of a parser method that has not returned
Frame(fn, at, node, op) == [fn |-> fn, at |-> at, node |-> node, op |-> op]

\* the method just called
Called(fn) == Frame(fn, "enter", Null, <<>>)

\* the frame running
Top == stack[Len(stack)]

\* the frames under it
Callers == SubSeq(stack, 1, Len(stack) - 1)

\* the running method calls fn and waits for it at the place  at
Call(frame, fn) == Append(Append(Callers, frame), Called(fn))

\* the token is read and the position stays
consumeNothing(p) == p

\* this.pos++
consume(p) == p + 1

\* The loop is left: return tokens; new Parser(tokens); parser.parseExpression()
LexReturn ==
    /\ pc = "tokenize"
    /\ ~(i < Len(request.value))
    /\ pc' = "parse"
    /\ pos' = 0
    /\ stack' = <<Called("parseExpression")>>
    /\ ret' = Null
    /\ ran' = Append(ran, "parse")
    /\ UNCHANGED <<outcomes, calls, request, tokens, ast, syntaxTree, tacLines, finalCode, error,
                   response, tempCounter, variables, i, clientVars>>

\* what the parser steps leave alone
ParserUnchanged ==
    UNCHANGED <<outcomes, calls, request, tokens, ast, syntaxTree, tacLines, finalCode, response,
                tempCounter, variables, ran, i, clientVars>>

\* throw new Error(...): every frame is left, for the catch block of the handler
Throw(err) ==
    /\ error' = err
    /\ pc' = "catch"
    /\ stack' = <<>>
    /\ UNCHANGED <<pos, ret>>

\* return node
Return(node) ==
    /\ ret' = node
    /\ stack' = Callers
    /\ UNCHANGED <<pos, pc, error>>

\* let node = this.parseTerm()
ParseExpressionEnter ==
    /\ pc = "parse" /\ stack # <<>>
    /\ Top.fn = "parseExpression" /\ Top.at = "enter"
    /\ stack' = Call([Top EXCEPT !.at = "first"], "parseTerm")
    /\ UNCHANGED <<pos, ret, pc, error>>
    /\ ParserUnchanged

\* let node = this.parseFactor()
ParseTermEnter ==
    /\ pc = "parse" /\ stack # <<>>
    /\ Top.fn = "parseTerm" /\ Top.at = "enter"
    /\ stack' = Call([Top EXCEPT !.at = "first"], "parseFactor")
    /\ UNCHANGED <<pos, ret, pc, error>>
    /\ ParserUnchanged

\* The operand called for has returned: node is set or grown, and the loop test
\* either consumes an operator and calls for its right operand, or returns node.
\*   while (this.peek() && operators.includes(this.peek().value)) {
\*       const op = this.consume().value; const right = this.<operand>(); node = {...} }
Loop(fn, operators, operand) ==
    /\ pc = "parse" /\ stack # <<>>
    /\ Top.fn = fn /\ Top.at \in {"first", "right"}
    /\ LET node == IF Top.at = "first" THEN ret ELSE BinaryOp(Top.op, Top.node, ret)
           tok == peek(tokens, pos)
       IN IF tok # Null /\ tok.value \in operators
          THEN /\ pos' = consume(pos)
               /\ stack' = Call(Frame(fn, "right", node, tok.value), operand)
               /\ UNCHANGED <<ret, pc, error>>
          ELSE Return(node)
    /\ ParserUnchanged

ExpressionLoop == Loop("parseExpression", ExpressionOperators, "parseTerm")

TermLoop == Loop("parseTerm", TermOperators, "parseFactor")

\* parseFactor up to its return, its throw, or its call for what follows "(" or "-"
ParseFactorEnter ==
    /\ pc = "parse" /\ stack # <<>>
    /\ Top.fn = "parseFactor" /\ Top.at = "enter"
    /\ LET tok == peek(tokens, pos)
       IN IF tok = Null THEN Throw(UnexpectedEnd)
          ELSE IF tok.type = "NUMBER"
          THEN /\ pos' = consume(pos)
               /\ ret' = NumberNode(tok.value)
               /\ stack' = Callers
               /\ UNCHANGED <<pc, error>>
          ELSE IF tok.type = "IDENT"
          THEN /\ pos' = consume(pos)
               /\ ret' = VariableNode(tok.value)
               /\ stack' = Callers
               /\ UNCHANGED <<pc, error>>
          ELSE IF tok.value = <<"(">>
          THEN /\ pos' = consume(pos)
               /\ stack' = Call([Top EXCEPT !.at = "paren"], "parseExpression")
               /\ UNCHANGED <<ret, pc, error>>
          ELSE IF tok.value = <<"-">>
          THEN /\ pos' = consume(pos)
               /\ stack' = Call([Top EXCEPT !.at = "minus"], "parseFactor")
               /\ UNCHANGED <<ret, pc, error>>
          ELSE Throw(UnexpectedToken(tok))
    /\ ParserUnchanged

\* const node = this.parseExpression(); this.eat("OPERATOR", ")"); return node
ParseFactorParen ==
    /\ pc = "parse" /\ stack # <<>>
    /\ Top.fn = "parseFactor" /\ Top.at = "paren"
    /\ LET r == eat(tokens, pos, "OPERATOR", <<")">>)
       IN IF r.ok
          THEN /\ pos' = r.pos
               /\ ret' = ret
               /\ stack' = Callers
               /\ UNCHANGED <<pc, error>>
          ELSE Throw(r.error)
    /\ ParserUnchanged

\* const expr = this.parseFactor(); return { type: "UnaryOp", operator: "-", operand: expr }
ParseFactorMinus ==
    /\ pc = "parse" /\ stack # <<>>
    /\ Top.fn = "parseFactor" /\ Top.at = "minus"
    /\ Return(UnaryOp(<<"-">>, ret))
    /\ ParserUnchanged

\* const ast = parser.parseExpression()  has returned
ParserReturn ==
    /\ pc = "parse" /\ stack = <<>>
    /\ ast' = ret
    /\ pc' = "check"
    /\ UNCHANGED <<outcomes, calls, request, tokens, pos, syntaxTree, tacLines, finalCode, error,
                   response, tempCounter, variables, ran, stepVars, clientVars>>

\* the characters of the requests stepped through
StepAlphabet == {"2", "a", "-", "*", "(", ")", " "}

\* the requests stepped through: every short string of them, and the examples
StepRequests ==
    {StringBody(v) : v \in UNION {[1..k -> StepAlphabet] : k \in 0..MaxStepLen} \cup Examples}
    \cup {UndefinedBody}

\* a step of the handler between the arrival of a request and its response
HandlerStep ==
    \/ LexIteration
    \/ LexReturn
    \/ ParseExpressionEnter
    \/ ParseTermEnter
    \/ ExpressionLoop
    \/ TermLoop
    \/ ParseFactorEnter
    \/ ParseFactorParen
    \/ ParseFactorMinus
    \/ ParserReturn
    \/ CheckExtra
    \/ PrintTree
    \/ GenerateTAC
    \/ GenerateFinalCode
    \/ SendResult
    \/ Catch

StepNext ==
    \/ \E body \in (IF calls = 0 THEN StepRequests ELSE {}) : Receive(body)
    \/ HandlerStep

\* the handler is synchronous: once entered it runs on to its response
StepSpec == Init /\ [][StepNext]_vars /\ WF_vars(HandlerStep)

(***************************************************************************)
(* What the claims speak of.                                               *)
(***************************************************************************)
\* the handler has answered the request in hand
Answered == pc = "idle" /\ calls > 0

Succeeded == Answered /\ response.status = 200

Failed == Answered /\ response.status = 400

\* the expression of the request in hand
Input == request.value

IsPrefix(p, s) == Len(p) <= Len(s) /\ SubSeq(s, 1, Len(p)) = p

\* the text of an operand node
LeafText(node) == IF node.type = "Number" THEN node.value ELSE node.name

IsLeaf(node) == node.type \in {"Number", "Variable"}

\* operator nodes (binary or unary) of a tree
RECURSIVE OperatorCount(_)
OperatorCount(node) ==
    IF node.type = "BinaryOp" THEN 1 + OperatorCount(node.left) + OperatorCount(node.right)
    ELSE IF node.type = "UnaryOp" THEN 1 + OperatorCount(node.operand)
    ELSE 0

\* all nodes of a tree
RECURSIVE NodeCount(_)
NodeCount(node) ==
    IF node.type = "BinaryOp" THEN 1 + NodeCount(node.left) + NodeCount(node.right)
    ELSE IF node.type = "UnaryOp" THEN 1 + NodeCount(node.operand)
    ELSE 1

\* the trees the claims name
Num(text) == [type |-> "Number", value |-> text]

Var(text) == [type |-> "Variable", name |-> text]

Bin(op, left, right) == [type |-> "BinaryOp", operator |-> op, left |-> left, right |-> right]

Neg(operand) == [type |-> "UnaryOp", operator |-> <<"-">>, operand |-> operand]

Ex2Dollar3 == <<"2", " ", "$", " ", "3">>

Ex2Plus3Times4 == <<"2", "+", "3", "*", "4">>

Ex8Minus3Minus2 == <<"8", "-", "3", "-", "2">>

ExMinusATimesB == <<"-", "a", "*", "b">>

ExMinusMinusX == <<"-", "-", "x">>

ExOpen2Plus3 == <<"(", "2", "+", "3">>

Ex2Space3 == <<"2", " ", "3">>

Ex2Close == <<"2", ")">>

ExXPlus2 == <<"x", "+", "2">>

Ex2Plus3 == <<"2", "+", "3">>

ExBPlus2 == <<"b", "+", "2">>

(***************************************************************************)
(* C1.  When the compiled expression is a single literal or variable,     *)
(* generateTAC yields exactly the one line  result = <value>  and the      *)
(* final field of the response is the no-operations placeholder, not a     *)
(* MOV line.  (The code emits  MOV result, <value>  instead: the           *)
(* placeholder of the handler is never produced.)                          *)
(***************************************************************************)
\* C1 as written: a single value yields the one line result = <value> and the
\* placeholder as final code
C1_SingleValuePlaceholder ==
    (Succeeded /\ IsLeaf(ast)) =>
        /\ tacLines = <<ResultTarget \o LeafText(ast)>>
        /\ response.body.intermediate = ResultTarget \o LeafText(ast)
        /\ response.body.final = NoOperations
        /\ ~IsPrefix(Mov, response.body.final)

(***************************************************************************)
(* C2.  tokenize fails on the first character that is not whitespace, part *)
(* of a number, part of an identifier or one of + - * / ( ), and the error *)
(* reports that character with its 1-based position in the input; for      *)
(* "2 $ 3" it reports the character $ and position 3.                      *)
(***************************************************************************)
\* the characters some token or blank of the lexer can hold
Lexable == Whitespace \cup NumberPart \cup IdentPart \cup OperatorChars

\* the answer reports an invalid character
InvalidCharacterReported == Failed /\ response.body.error.text = "Invalid character"

\* what every report of an invalid character says
\* C2, the general part: a reported character is the first one no token or blank
\* can hold, with its 1-based position
C2_ReportIsFirstBadCharacter ==
    /\ InvalidCharacterReported =>
         LET p == response.body.error.position
             ch == response.body.error.value[1]
         IN /\ p \in 1..Len(Input)
            /\ Input[p] = ch
            /\ ch \notin Whitespace \cup Digits \cup Letters \cup OperatorChars
            /\ ch = "." => At(Input, p) \notin Digits
            /\ \A k \in 1..(p - 1) : Input[k] \in Lexable
            /\ tokenize(SubSeq(Input, 1, p - 1)).ok
            /\ ran = <<"tokenize">>
    /\ (Answered /\ ~Invalid(request) /\ \E k \in 1..Len(Input) : Input[k] \notin Lexable) =>
         /\ Failed
         /\ response.body.error.text \in {"Invalid character", "Invalid number format: multiple dots"}
         /\ (\A k \in 1..Len(Input) : Input[k] # ".") =>
               LET first == CHOOSE k \in 1..Len(Input) :
                               /\ Input[k] \notin Lexable
                               /\ \A j \in 1..(k - 1) : Input[j] \in Lexable
               IN /\ response.body.error.text = "Invalid character"
                  /\ response.body.error.value = <<Input[first]>>
                  /\ response.body.error.position = first

\* C2 as amended: the general part, and $ at position 3 for "2 $ 3"
C2_InvalidCharacterPosition ==
    /\ C2_ReportIsFirstBadCharacter
    /\ (Answered /\ Input = Ex2Dollar3) =>
          /\ Failed
          /\ response.body.error.text = "Invalid character"
          /\ response.body.error.value = <<"$">>
          /\ response.body.error.position = 3

\* C2 as written: the general part, and $ at position 5 for "2 $ 3"
C2_AsWritten ==
    /\ C2_ReportIsFirstBadCharacter
    /\ (Answered /\ Input = Ex2Dollar3) =>
          /\ Failed
          /\ response.body.error.text = "Invalid character"
          /\ response.body.error.value = <<"$">>
          /\ response.body.error.position = 5

\* C2: tokenize has failed on the $ of "2 $ 3"
C2_Witness == InvalidCharacterReported /\ Input = Ex2Dollar3

(***************************************************************************)
(* C3.  For any sequence of compile calls, whether earlier calls succeeded *)
(* or failed, each call's result depends only on its own expression:       *)
(* temporary numbering restarts at t0 in every call, the variable list     *)
(* holds only that call's variables, and the response equals that of the   *)
(* same expression compiled alone.                                         *)
(***************************************************************************)
\* the response of a server that has served nothing to a request
CompiledAlone(body) ==
    IF Invalid(body) THEN [status |-> 400, body |-> [error |-> MissingExpression]]
    ELSE
      LET lexed == tokenize(body.value)
          parsed == parseExpression(lexed.tokens, 0)
          tac == generateTAC(parsed.node, 0)
          final == generateFinalCode(tac.tac)
          tree == Trim(printTree(parsed.node, <<>>, TRUE, TRUE))
      IN
      IF ~lexed.ok THEN [status |-> 400, body |-> [error |-> lexed.error]]
      ELSE IF ~parsed.ok THEN [status |-> 400, body |-> [error |-> parsed.error]]
      ELSE IF parsed.pos # Len(lexed.tokens)
      THEN [status |-> 400, body |-> [error |-> ExtraTokens]]
      ELSE [status |-> 200,
            body |-> [tokens |-> TokenLines(lexed.tokens),
                      syntaxTree |-> IF tree = <<>> THEN EmptyTree ELSE tree,
                      semantic |-> semanticAnalysis(parsed.node, <<>>).report,
                      intermediate |-> Join(tac.tac, <<"\n">>),
                      final |-> IF final.code = <<>> THEN NoOperations ELSE final.code]]

\* the names of the identifier tokens of the request in hand
OwnNames == {tokens[k].value : k \in {j \in 1..Len(tokens) : tokens[j].type = "IDENT"}}

\* C3: every answer is that of the expression compiled alone; temporaries start
\* at t0 and the variables are the call's own
C3_CallsIndependent ==
    /\ Answered => response = CompiledAlone(request)
    /\ Succeeded =>
         /\ Len(tacLines) > 1 => IsPrefix(<<"t", "0", " ", "=", " ">>, tacLines[1])
         /\ tempCounter = Len(tacLines) - 1
         /\ {variables[k] : k \in 1..Len(variables)} = OwnNames

\* C3: a second call has succeeded after a first one that succeeded
C3_Witness ==
    /\ Succeeded
    /\ calls = 2
    /\ outcomes = <<200, 200>>
    /\ Input = ExBPlus2
    /\ tacLines = << <<"t", "0", " ", "=", " ", "b", " ", "+", " ", "2">>,
                     <<"r", "e", "s", "u", "l", "t", " ", "=", " ", "t", "0">> >>
    /\ variables = << <<"b">> >>

(***************************************************************************)
(* C4.  For every AST with k operator nodes (binary or unary) generateTAC  *)
(* emits exactly k+1 lines: line i (i = 0..k-1) defines temporary t_i,     *)
(* the lines are in post-order (left subtree, right subtree, parent),      *)
(* every temporary used as an operand is defined on an earlier line, and   *)
(* the last line is  result = <root reference>;  for "2+3*4" the lines are *)
(* t0 = 3 * 4, t1 = 2 + t0, result = t1.                                   *)
(***************************************************************************)
\* the operand naming a subtree whose first temporary is t_base
Ref(node, base) ==
    IF IsLeaf(node) THEN LeafText(node) ELSE TempName(base + OperatorCount(node) - 1)

\* the post-order lines of a subtree whose first temporary is t_base
RECURSIVE PostOrderLines(_, _)
PostOrderLines(node, base) ==
    IF node.type = "BinaryOp"
    THEN
      LET l == OperatorCount(node.left)
          r == OperatorCount(node.right)
      IN PostOrderLines(node.left, base) \o PostOrderLines(node.right, base + l)
         \o << TempName(base + l + r) \o Assign \o Ref(node.left, base) \o <<" ">>
               \o node.operator \o <<" ">> \o Ref(node.right, base + l) >>
    ELSE IF node.type = "UnaryOp"
    THEN PostOrderLines(node.operand, base)
         \o << TempName(base + OperatorCount(node.operand)) \o Assign \o <<"-">>
               \o Ref(node.operand, base) >>
    ELSE <<>>

\* a name of the form t<digits>
IsTempLike(name) ==
    /\ Len(name) >= 2
    /\ name[1] = "t"
    /\ \A k \in 2..Len(name) : name[k] \in Digits

\* the operands a line reads: the words right of " = ", a leading minus dropped
Operands(line) ==
    LET words == Split(Split(line, Assign)[2], <<" ">>)
    IN {IF w # <<>> /\ w[1] = "-" THEN Tail(w) ELSE w : w \in {words[k] : k \in 1..Len(words)}}

\* generateTAC has returned for the request in hand
TacGenerated == Len(ran) >= 5 /\ ran[5] = "generateTAC" /\ error = NoError

\* C4: k+1 lines, t_i on line i, post-order, operands defined earlier, result last
C4_PostOrderTemporaries ==
    /\ TacGenerated =>
         LET k == OperatorCount(ast)
         IN /\ Len(tacLines) = k + 1
            /\ tempCounter = k
            /\ \A n \in 0..(k - 1) : IsPrefix(TempName(n) \o Assign, tacLines[n + 1])
            /\ tacLines = Append(PostOrderLines(ast, 0), ResultTarget \o Ref(ast, 0))
            /\ (\A name \in OwnNames : ~IsTempLike(name)) =>
                 \A n \in 0..(k - 1) : \A w \in Operands(tacLines[n + 1]) :
                     IsTempLike(w) => \E j \in 0..(n - 1) : w = TempName(j)
    /\ (TacGenerated /\ Input = Ex2Plus3Times4) =>
         tacLines = << <<"t", "0", " ", "=", " ", "3", " ", "*", " ", "4">>,
                       <<"t", "1", " ", "=", " ", "2", " ", "+", " ", "t", "0">>,
                       <<"r", "e", "s", "u", "l", "t", " ", "=", " ", "t", "1">> >>

\* C4: the lines of "2+3*4" have been generated
C4_Witness ==
    /\ TacGenerated
    /\ Input = Ex2Plus3Times4
    /\ OperatorCount(ast) = 2
    /\ Len(tacLines) = 3

(***************************************************************************)
(* C5.  A compile call succeeds only if the parser consumed every token:   *)
(* an input with a "(" that has no matching ")" or with tokens left over   *)
(* after a complete top-level expression (such as "(2+3", "2 3" or "2)")   *)
(* yields an error response, never a success built from a prefix.          *)
(***************************************************************************)
\* the tokens of the request in hand that are the character c
CountOf(c) == Cardinality({k \in 1..Len(tokens) : tokens[k].value = <<c>>})

\* C5: success only with every token consumed; unmatched or left-over tokens fail
C5_WholeInputConsumed ==
    /\ Succeeded =>
         /\ pos = Len(tokens)
         /\ CountOf("(") = CountOf(")")
         /\ NodeCount(ast) + CountOf("(") + CountOf(")") = Len(tokens)
    /\ (Answered /\ CountOf("(") # CountOf(")")) => Failed
    /\ (Answered /\ Len(ran) >= 3 /\ pos # Len(tokens)) =>
         /\ Failed
         /\ response.body = [error |-> ExtraTokens]
    /\ (Answered /\ Input \in {ExOpen2Plus3, Ex2Space3, Ex2Close}) => Failed

\* C5: a complete expression was parsed and a token was left over
C5_Witness ==
    /\ Failed
    /\ Input = Ex2Space3
    /\ ast = Num(<<"2">>)
    /\ pos = 1
    /\ Len(tokens) = 2
    /\ response.body.error = ExtraTokens

(***************************************************************************)
(* C6.  The pipeline is fail-fast with no partial results: if tokenize,    *)
(* parse or the trailing-token check fails, no later stage (tree printer,  *)
(* semantic analysis, TAC generation, final code) runs, and the response   *)
(* carries exactly one error message and none of the fields tokens,        *)
(* syntaxTree, semantic, intermediate, final.                              *)
(***************************************************************************)
LaterStages == {"printTree", "semanticAnalysis", "generateTAC", "generateFinalCode"}

StagesRun == {ran[k] : k \in 1..Len(ran)}

\* C6: a failed stage ends the pipeline and the answer is the one error alone
C6_FailFast ==
    /\ error # NoError =>
         /\ pc \in {"catch", "idle"}
         /\ ran \in {<<"tokenize">>, <<"tokenize", "parse">>, <<"tokenize", "parse", "check">>}
         /\ StagesRun \cap LaterStages = {}
         /\ syntaxTree = <<>> /\ tacLines = <<>> /\ finalCode = <<>>
         /\ Len(ran) = 1 => tokens = <<>>
         /\ Len(ran) = 2 => ast = Null
         /\ Len(ran) = 3 => error = ExtraTokens
    /\ Failed =>
         /\ DOMAIN response.body = {"error"}
         /\ response.body.error = (IF Invalid(request) THEN MissingExpression ELSE error)
         /\ response.body.error # NoError
    /\ Succeeded =>
         /\ error = NoError
         /\ DOMAIN response.body = {"tokens", "syntaxTree", "semantic", "intermediate", "final"}

\* C6: the parser threw and the answer is its message alone
C6_Witness ==
    /\ Failed
    /\ Input = ExOpen2Plus3
    /\ ran = <<"tokenize", "parse">>
    /\ response.body = [error |-> Expected("OPERATOR", <<")">>, "EOF")]

(***************************************************************************)
(* C7.  Parsing respects the precedence hierarchy for every valid token    *)
(* sequence: * and / bind tighter than + and -, and unary minus binds      *)
(* tighter than any binary operator and can stack, so "2+3*4" parses to    *)
(* BinaryOp('+', 2, BinaryOp('*', 3, 4)), "-a*b" to                        *)
(* BinaryOp('*', UnaryOp('-', a), b) and "--x" to                          *)
(* UnaryOp('-', UnaryOp('-', x)).                                          *)
(***************************************************************************)
Additive == {<<"+">>, <<"-">>}

Multiplicative == {<<"*">>, <<"/">>}

IsParen(tok) == tok.value \in {<<"(">>, <<")">>}

NotParen(tok) == ~IsParen(tok)

ParenFree == \A k \in 1..Len(tokens) : ~IsParen(tokens[k])

\* the tokens a tree was read from, parentheses apart
RECURSIVE InOrder(_)
InOrder(node) ==
    IF node.type = "BinaryOp"
    THEN InOrder(node.left) \o <<Token("OPERATOR", node.operator)>> \o InOrder(node.right)
    ELSE IF node.type = "UnaryOp"
    THEN <<Token("OPERATOR", node.operator)>> \o InOrder(node.operand)
    ELSE IF node.type = "Number" THEN <<Token("NUMBER", node.value)>>
    ELSE <<Token("IDENT", node.name)>>

\* in a tree read from tokens without parentheses: no * or / over a + or -,
\* and no unary minus over a binary operator
RECURSIVE TighterBelow(_)
TighterBelow(node) ==
    IF node.type = "BinaryOp"
    THEN /\ node.operator \in Multiplicative =>
              \A child \in {node.left, node.right} :
                  child.type = "BinaryOp" => child.operator \in Multiplicative
         /\ TighterBelow(node.left)
         /\ TighterBelow(node.right)
    ELSE IF node.type = "UnaryOp"
    THEN node.operand.type # "BinaryOp" /\ TighterBelow(node.operand)
    ELSE TRUE

\* the parser has returned a tree for the request in hand
ParsedOk == Len(ran) >= 2 /\ ~(Len(ran) = 2 /\ error # NoError)

\* C7: * and / below + and -, unary minus below every binary operator
C7_Precedence ==
    /\ ParsedOk =>
         /\ InOrder(ast) = SelectSeq(SubSeq(tokens, 1, pos), NotParen)
         /\ ParenFree => TighterBelow(ast)
    /\ (Answered /\ Input = Ex2Plus3Times4) =>
         /\ Succeeded
         /\ ast = Bin(<<"+">>, Num(<<"2">>), Bin(<<"*">>, Num(<<"3">>), Num(<<"4">>)))
    /\ (Answered /\ Input = ExMinusATimesB) =>
         /\ Succeeded
         /\ ast = Bin(<<"*">>, Neg(Var(<<"a">>)), Var(<<"b">>))
    /\ (Answered /\ Input = ExMinusMinusX) =>
         /\ Succeeded
         /\ ast = Neg(Neg(Var(<<"x">>)))

\* C7: "-a*b" has been parsed with the unary minus under the product
C7_Witness ==
    /\ Succeeded
    /\ Input = ExMinusATimesB
    /\ ast.type = "BinaryOp"
    /\ ast.left.type = "UnaryOp"

(***************************************************************************)
(* C8.  Binary operators of the same precedence level are                  *)
(* left-associative: a chain a op1 b op2 c with op1, op2 both in {+,-} or  *)
(* both in {*,/} parses to BinaryOp(op2, BinaryOp(op1, a, b), c), each     *)
(* further operand wrapping the node built so far as the left child;       *)
(* "8-3-2" parses to BinaryOp(-, BinaryOp(-, 8, 3), 2).                    *)
(***************************************************************************)
SameLevel(op1, op2) ==
    \/ op1 \in Additive /\ op2 \in Additive
    \/ op1 \in Multiplicative /\ op2 \in Multiplicative

\* in a tree read from tokens without parentheses: no operator has an
\* operator of its own level as its right operand
RECURSIVE LeansLeft(_)
LeansLeft(node) ==
    IF node.type = "BinaryOp"
    THEN /\ node.right.type = "BinaryOp" => ~SameLevel(node.operator, node.right.operator)
         /\ LeansLeft(node.left)
         /\ LeansLeft(node.right)
    ELSE IF node.type = "UnaryOp" THEN LeansLeft(node.operand)
    ELSE TRUE

IsOperand(tok) == tok.type \in {"NUMBER", "IDENT"}

LeafOf(tok) == IF tok.type = "NUMBER" THEN Num(tok.value) ELSE Var(tok.value)

\* the tokens are a op1 b op2 c with op1 and op2 of one level
ChainOfThree ==
    /\ Len(tokens) = 5
    /\ IsOperand(tokens[1]) /\ IsOperand(tokens[3]) /\ IsOperand(tokens[5])
    /\ tokens[2].type = "OPERATOR" /\ tokens[4].type = "OPERATOR"
    /\ SameLevel(tokens[2].value, tokens[4].value)

\* C8: operators of one level nest to the left
C8_LeftAssociative ==
    /\ (ParsedOk /\ ParenFree) => LeansLeft(ast)
    /\ (Answered /\ ChainOfThree) =>
         /\ Succeeded
         /\ ast = Bin(tokens[4].value,
                      Bin(tokens[2].value, LeafOf(tokens[1]), LeafOf(tokens[3])),
                      LeafOf(tokens[5]))
    /\ (Answered /\ Input = Ex8Minus3Minus2) =>
         /\ Succeeded
         /\ ast = Bin(<<"-">>, Bin(<<"-">>, Num(<<"8">>), Num(<<"3">>)), Num(<<"2">>))

\* C8: "8-3-2" has been parsed with the first subtraction as left operand
C8_Witness ==
    /\ Succeeded
    /\ Input = Ex8Minus3Minus2
    /\ ChainOfThree
    /\ ast.left.type = "BinaryOp"

(***************************************************************************)
(* C9.  For every input on which tokenize succeeds, the tokens are in      *)
(* source order and cover the non-whitespace input exactly once with no    *)
(* gaps and no overlaps: concatenating the token texts in order equals the *)
(* input with all whitespace removed.                                      *)
(***************************************************************************)
RECURSIVE Concatenation(_)
Concatenation(texts) ==
    IF texts = <<>> THEN <<>> ELSE texts[1] \o Concatenation(Tail(texts))

NotBlank(ch) == ch \notin Whitespace

\* tokenize has returned its tokens for the request in hand
Tokenized == ran # <<>> /\ ~(Len(ran) = 1 /\ error # NoError)

\* C9: the token texts in order are the input without its whitespace
C9_TokensCoverInput ==
    Tokenized =>
        /\ Concatenation([k \in 1..Len(tokens) |-> tokens[k].value]) = SelectSeq(Input, NotBlank)
        /\ \A k \in 1..Len(tokens) :
              /\ tokens[k].value # <<>>
              /\ \A c \in 1..Len(tokens[k].value) : tokens[k].value[c] \notin Whitespace

\* C9: blanks were skipped and tokens of more than one character read
C9_Witness ==
    /\ pc = "parse"
    /\ Input = <<" ", "a", "b", " ", "+", "\t", "2", ".", "5", " ">>
    /\ tokens = <<Token("IDENT", <<"a", "b">>), Token("OPERATOR", <<"+">>),
                  Token("NUMBER", <<"2", ".", "5">>)>>

(***************************************************************************)
(* C10.  For every AST, semantic analysis lists each variable name exactly *)
(* once, in the order first met by a pre-order (node, left, right) walk,   *)
(* and classifies the expression as "symbolic" (listing those variables as *)
(* needing runtime values) if and only if at least one variable occurs,    *)
(* otherwise as "numeric" with no variables reported.                      *)
(***************************************************************************)
\* the variable names of a tree as a pre-order walk meets them
RECURSIVE PreOrderNames(_)
PreOrderNames(node) ==
    IF node.type = "BinaryOp" THEN PreOrderNames(node.left) \o PreOrderNames(node.right)
    ELSE IF node.type = "UnaryOp" THEN PreOrderNames(node.operand)
    ELSE IF node.type = "Variable" THEN <<node.name>>
    ELSE <<>>

\* a list cut down to the first occurrence of each element
FirstOccurrences(list) ==
    LET keep == {k \in 1..Len(list) : \A j \in 1..(k - 1) : list[j] # list[k]}
    IN [n \in 1..Cardinality(keep) |->
           list[CHOOSE k \in keep : Cardinality({j \in keep : j < k}) = n - 1]]

\* C10: each variable once, in pre-order of first meeting; symbolic iff any
C10_VariablesOnceInOrder ==
    Succeeded =>
        LET names == FirstOccurrences(PreOrderNames(ast))
            report == response.body.semantic
        IN /\ variables = names
           /\ \A k \in 1..Len(names) : \A j \in 1..Len(names) : names[k] = names[j] => k = j
           /\ names # <<>> =>
                /\ report[4] = [label |-> "Variables     : ", text |-> Join(names, CommaSpace)]
                /\ report[7].label = "Result Type   : symbolic (contains variables)"
                /\ Len(report) = 10
                /\ report[9] = [label |-> "! Undeclared symbols: ",
                                text |-> Join(names, CommaSpace)]
                /\ report[10].label = "  (values needed at runtime)"
           /\ names = <<>> =>
                /\ report[4] = [label |-> "Variables     : ", text |-> NoneText]
                /\ report[7].label = "Result Type   : numeric (can evaluate)"
                /\ Len(report) = 9
                /\ report[9].label = "ok Expression is fully evaluable at compile time"
           /\ (Input = ExXPlus2) =>
                /\ names = << <<"x">> >>
                /\ report[7].label = "Result Type   : symbolic (contains variables)"
           /\ (Input = Ex2Plus3) =>
                /\ names = <<>>
                /\ report[7].label = "Result Type   : numeric (can evaluate)"

\* C10: a variable met twice is listed once, in the order of first meeting
C10_Witness ==
    /\ Succeeded
    /\ Input = <<"b", "*", "(", "a", "-", "b", ")", "/", "a">>
    /\ variables = << <<"b">>, <<"a">> >>
    /\ response.body.semantic[4].text = <<"b", ",", " ", "a">>

(***************************************************************************)
(* C11.  For every finite input string the compile pipeline terminates     *)
(* with either a result or an error: every iteration of the lexer loop     *)
(* either advances the cursor by at least one character or throws, and     *)
(* every parser loop iteration and every recursive parseFactor call for    *)
(* "(" or unary "-" consumes a token first, so the parser position never   *)
(* decreases and never exceeds the token count.                            *)
(***************************************************************************)
\* an iteration of the lexer loop advances the cursor, within the input, or throws
LexerAdvances ==
    [][(pc = "tokenize" /\ i < Len(Input)) =>
           \/ pc' = "catch"
           \/ pc' = "tokenize" /\ i' > i /\ i' <= Len(Input)]_vars

\* the parser method waiting for the call just made
Caller == stack'[Len(stack)]

\* a parser method is called from a loop iteration or for what follows "(" or "-"
CalledAfterOperator ==
    /\ pc = "parse" /\ stack # <<>>
    /\ Len(stack') = Len(stack) + 1
    /\ Caller.at \in {"right", "paren", "minus"}

\* such a call is made with one more token consumed, and that token is the
\* operator, the "(" or the "-"
ConsumesFirst ==
    [][CalledAfterOperator =>
           /\ pos' = pos + 1
           /\ pos < Len(tokens)
           /\ tokens[pos + 1].type = "OPERATOR"
           /\ Caller.at = "right" => tokens[pos + 1].value = Caller.op
           /\ Caller.at = "paren" => tokens[pos + 1].value = <<"(">>
           /\ Caller.at = "minus" => tokens[pos + 1].value = <<"-">>]_vars

\* the position never decreases while the parser runs
PositionNeverDecreases == [][pc = "parse" => pos' >= pos]_vars

\* the position stays within the tokens, so a read is at most the one past the last
PositionWithinTokens == pos \in 0..Len(tokens)

\* a request in hand is answered with a result or with an error
Terminates ==
    (pc # "idle") ~>
        (Answered /\ response.status \in {200, 400} /\ stack = <<>> /\ i <= Len(Input))

\* C11: the lexer advances or throws, the parser consumes before it loops or
\* recurses, its position is monotone and bounded, and every request is answered
C11_PipelineTerminates ==
    /\ LexerAdvances
    /\ ConsumesFirst
    /\ PositionNeverDecreases
    /\ []PositionWithinTokens
    /\ Terminates

\* C11: "-(a+2)*-b", with both loops, a parenthesis and two unary minus, has been
\* lexed and parsed step by step and answered
C11_Witness ==
    /\ Succeeded
    /\ Input = <<"-", "(", "a", "+", "2", ")", "*", "-", "b">>
    /\ i = Len(Input)
    /\ pos = Len(tokens)
    /\ Len(tokens) = 9
    /\ ast = Bin(<<"*">>, Neg(Bin(<<"+">>, Var(<<"a">>), Num(<<"2">>))), Neg(Var(<<"b">>)))

(***************************************************************************)
(* The client (script.js).  compileExpression is declared twice; the later *)
(* declaration (lines 86-132) replaces the earlier one, and so does the    *)
(* later showError.  An invocation runs to its first await, and is resumed *)
(* when the fetch settles and again when the body has been read; between   *)
(* those points other invocations and resumptions may run.  The server     *)
(* answers each request as it answers that expression alone.               *)
(***************************************************************************)
\* most invocations of compileExpression in one run of the page
MaxSubmits == 3

\* the values typed into the input field
Typed ==
    { <<>>, <<" ">>, <<"2", "+", "3">>, <<" ", "a", "+", "1">>,
      <<"2", " ", "$", " ", "3">>, <<"(", "2", "+", "3">> }

\* value || fallback  for a string value
OrElse(value, fallback) == IF value = <<>> THEN fallback ELSE value

PleaseEnter == Message("Please enter an expression", "", <<>>, 0)

\* err.message of the TypeError fetch rejects with
FailedToFetch == Message("Failed to fetch", "", <<>>, 0)

\* showError(msg): errorDiv.textContent = "Error: " + msg; errorDiv.classList.remove("hidden")
showError(msg) == [hidden |-> FALSE, textContent |-> <<"Error: ", msg>>]

\* the five assignments of lines 122-126
Shown(data) ==
    [id \in OutputIds |->
        IF id = "lexicalOutput" THEN OrElse(data.tokens, <<"(no tokens)">>)
        ELSE IF id = "syntaxOutput" THEN OrElse(data.syntaxTree, <<"(empty tree)">>)
        ELSE IF id = "semanticOutput" THEN OrElse(data.semantic, <<"(no semantic info)">>)
        ELSE IF id = "intermediateOutput" THEN OrElse(data.intermediate, <<"(no TAC)">>)
        ELSE OrElse(data.final, <<"(no final code)">>)]

\* an invocation suspended at an await
Suspended(id, expression, at, answer) ==
    [id |-> id, expression |-> expression, at |-> at, response |-> answer]

serverUnchanged == UNCHANGED <<serverVars, stepVars>>

\* the user edits the input field
TypeExpression(value) ==
    /\ Len(submitted) < MaxSubmits
    /\ expressionInput # value
    /\ expressionInput' = value
    /\ UNCHANGED <<errorMessage, outputs, pending, submitted>>
    /\ serverUnchanged

\* Enter is pressed: compileExpression runs to its return or to  await fetch(...)
CompileExpression ==
    /\ Len(submitted) < MaxSubmits
    /\ LET expression == Trim(expressionInput)
       IN /\ submitted' = Append(submitted, expression)
          /\ outputs' = NoOutputs
          /\ IF expression = <<>>
             THEN /\ errorMessage' = showError(PleaseEnter)
                  /\ pending' = pending
             ELSE /\ errorMessage' = HiddenBanner
                  /\ pending' = pending \cup
                        {Suspended(Len(submitted) + 1, expression, "fetch", NoResponse)}
    /\ UNCHANGED expressionInput
    /\ serverUnchanged

\* the server has answered: the invocation resumes and suspends at  await response.json()
FetchResolves(inv) ==
    /\ inv \in pending
    /\ inv.at = "fetch"
    /\ pending' = (pending \ {inv}) \cup
          {Suspended(inv.id, inv.expression, "json", CompiledAlone(StringBody(inv.expression)))}
    /\ UNCHANGED <<expressionInput, errorMessage, outputs, submitted>>
    /\ serverUnchanged

\* the request failed: the invocation resumes in its catch block
FetchRejects(inv) ==
    /\ inv \in pending
    /\ inv.at = "fetch"
    /\ pending' = pending \ {inv}
    /\ errorMessage' = showError(FailedToFetch)
    /\ UNCHANGED <<expressionInput, outputs, submitted>>
    /\ serverUnchanged

\* the body has been read: the invocation resumes and runs to its end
JsonResolves(inv) ==
    /\ inv \in pending
    /\ inv.at = "json"
    /\ pending' = pending \ {inv}
    /\ IF inv.response.status # 200
       THEN /\ errorMessage' = showError(inv.response.body.error)
            /\ outputs' = outputs
       ELSE /\ outputs' = Shown(inv.response.body)
            /\ errorMessage' = errorMessage
    /\ UNCHANGED <<expressionInput, submitted>>
    /\ serverUnchanged

ClientNext ==
    \/ \E value \in Typed : TypeExpression(value)
    \/ CompileExpression
    \/ \E inv \in pending : FetchResolves(inv)
    \/ \E inv \in pending : FetchRejects(inv)
    \/ \E inv \in pending : JsonResolves(inv)

ClientSpec == Init /\ [][ClientNext]_vars

(***************************************************************************)
(* C12.  In the client, for any interleaving of compileExpression          *)
(* invocations, once no request is pending the page shows only the outcome *)
(* of the most recently submitted expression: either its error banner with *)
(* all five output panels empty, or its five phase outputs with the error  *)
(* banner hidden.  (The code lets every invocation write when it resumes:  *)
(* an earlier invocation's banner or outputs stay or arrive after the      *)
(* latest one's.)                                                          *)
(***************************************************************************)
\* the expression submitted last
Latest == submitted[Len(submitted)]

\* the banner and panels that show the outcome  answer  alone
OutcomeAlone(answer) ==
    IF answer.status = 200
    THEN [errorMessage |-> HiddenBanner, outputs |-> Shown(answer.body)]
    ELSE [errorMessage |-> showError(answer.body.error), outputs |-> NoOutputs]

\* what the page may show for an expression submitted alone
OutcomesOf(expression) ==
    IF expression = <<>>
    THEN {[errorMessage |-> showError(PleaseEnter), outputs |-> NoOutputs]}
    ELSE {OutcomeAlone(CompiledAlone(StringBody(expression))),
          [errorMessage |-> showError(FailedToFetch), outputs |-> NoOutputs]}

\* no invocation is suspended and one has been made
Settled == pending = {} /\ submitted # <<>>

\* C12 as written: once nothing is pending the page shows the outcome of the
\* expression submitted last, and only that
C12_ShowsLatestOnly ==
    Settled =>
        [errorMessage |-> errorMessage, outputs |-> outputs] \in OutcomesOf(Latest)

====
